---- MODULE Spec2Model ----
(***************************************************************************)
(* Model of tools/exporter.py: the batch exporter that derives the status  *)
(* page document (health.json) from availability metrics.                  *)
(*                                                                         *)
(* Representation                                                          *)
(*   - a Python str that the code inspects (component names, incident      *)
(*     titles) is a sequence of one-character strings, so that split()     *)
(*     and the substring test `in` are computed, not assumed;              *)
(*   - Optional[x] is <<>> for None and <<x>> for a value;                 *)
(*   - a float availability a in [0,1] is the integer a * Unit             *)
(*     (Unit = 10^6, the 6 decimals that round(.., 6) keeps); a            *)
(*     percentage p is the integer p * Unit, so p / 100.0 is a division;   *)
(*     sums and means are exact, where the code's are IEEE doubles;        *)
(*   - the wall clock is an integer number of ticks; bucket_end is the     *)
(*     minute number clock \div TicksPerMinute and the ISO-8601 text of a  *)
(*     minute is the record [date, hm] (its first 10 characters are the    *)
(*     date field, the rest the minute of the day);                        *)
(*   - a dict is a function; {} is the empty function <<>>;                *)
(*   - runs are sequential (one process at a time) and the clock is taken  *)
(*     to advance from one run to the next; a run is one step, since the   *)
(*     document is read once at its start and written once at its end.     *)
(***************************************************************************)
EXTENDS Integers, Sequences, FiniteSets, TLC

VARIABLES
    file,     \* the document at OUTPUT_PATH: [state |-> "missing" | "corrupt" | "ok", doc]
    clock,    \* the last wall-clock reading (ticks)
    runs,     \* history: one record per run of main(), oldest first
    args,     \* argument record of the last direct call of a pure function
    ret       \* its result

vars == <<file, clock, runs, args, ret>>

-----------------------------------------------------------------------------
(* Bounds of the model *)

MaxRuns == 3          \* runs of main() explored per behaviour
TicksPerMinute == 2   \* clock readings distinguished inside one minute

(* Program constants *)

AVAIL_SLO == 999000       \* 0.999 in units of 1/Unit
LOAD_SLO_MS == 3000
Unit == 1000000           \* 1.0, and the 6 of round(x, 6)
MinuteCap == 10080        \* series[-10080:]
DayCap == 120             \* days[-120:], out[-120:]
MinutesPerDay == 1440     \* minutes sharing one YYYY-MM-DD prefix

-----------------------------------------------------------------------------
(* Generic helpers *)

None == <<>>
Some(x) == <<x>>
IsNone(o) == o = <<>>
Val(o) == o[1]

Min(S) == CHOOSE x \in S : \A y \in S : x <= y
Max(S) == CHOOSE x \in S : \A y \in S : x >= y

\* Python's s[-n:] for n > 0
LastN(s, n) == IF Len(s) <= n THEN s ELSE SubSeq(s, Len(s) - n + 1, Len(s))

\* dict.get(k, default) and d[k] = v
Get(d, k, default) == IF k \in DOMAIN d THEN d[k] ELSE default
Put(d, k, v) == [x \in (DOMAIN d) \cup {k} |-> IF x = k THEN v ELSE d[x]]

\* `needle in hay` on str
Contains(hay, needle) ==
    \E i \in 0..(Len(hay) - Len(needle)) : SubSeq(hay, i + 1, i + Len(needle)) = needle

Whitespace == {" "}

\* name.split()[0]; defined for names with a non-blank character
FirstToken(name) ==
    LET nonws == {i \in 1..Len(name) : name[i] \notin Whitespace}
        start == Min(nonws)
        wsAfter == {i \in start..Len(name) : name[i] \in Whitespace}
        stop  == IF wsAfter = {} THEN Len(name) ELSE Min(wsAfter) - 1
    IN  SubSeq(name, start, stop)

\* round(num / den, 6) on values in units of 1/Unit: the nearest integer, a
\* tie going to the even one
Round6(num, den) ==
    LET q == num \div den
        r == num - q * den
    IN  IF 2 * r > den \/ (2 * r = den /\ q % 2 = 1) THEN q + 1 ELSE q

-----------------------------------------------------------------------------
(* Status Evaluator *)

\* the load objective compared with < instead of <=
component_status_StrictLoad(availability, p95_load_ms) ==
    IF IsNone(availability) \/ Val(availability) < AVAIL_SLO
    THEN "major_outage"
    ELSE IF IsNone(p95_load_ms) \/ Val(p95_load_ms) < LOAD_SLO_MS
         THEN "operational"
         ELSE "degraded_performance"

component_status(availability, p95_load_ms) ==
    IF IsNone(availability) \/ Val(availability) < AVAIL_SLO
    THEN "major_outage"
    ELSE IF IsNone(p95_load_ms) \/ Val(p95_load_ms) <= LOAD_SLO_MS
         THEN "operational"
         ELSE "degraded_performance"

-----------------------------------------------------------------------------
(* Minute-sample store *)

\* bucket_end.isoformat().replace("+00:00", "Z") of minute number m
IsoMinute(m) == [date |-> m \div MinutesPerDay, hm |-> m % MinutesPerDay]

\* str(t)[:10]
DatePrefix(t) == t.date

\* the append without the comparison with the last point
append_minute_sample_NoDedupe(minute_samples, component_name, bucket_end, availability) ==
    LET got    == Get(minute_samples, component_name, <<>>)
        iso    == IsoMinute(bucket_end)
        value  == IF IsNone(availability) THEN 0 ELSE Val(availability)
        series == LastN(Append(got, [t |-> iso, availability |-> Round6(value, 1)]),
                        MinuteCap)
    IN  Put(minute_samples, component_name, series)

\* the append without the truncation to the last 10080 points
append_minute_sample_NoCap(minute_samples, component_name, bucket_end, availability) ==
    LET got    == Get(minute_samples, component_name, <<>>)
        iso    == IsoMinute(bucket_end)
        value  == IF IsNone(availability) THEN 0 ELSE Val(availability)
        series == IF got = <<>> \/ got[Len(got)].t # iso
                  THEN Append(got, [t |-> iso, availability |-> Round6(value, 1)])
                  ELSE got
    IN  Put(minute_samples, component_name, series)

\* the append that replaces the last point of the same minute by the new value
append_minute_sample_Overwrite(minute_samples, component_name, bucket_end, availability) ==
    LET got    == Get(minute_samples, component_name, <<>>)
        iso    == IsoMinute(bucket_end)
        value  == IF IsNone(availability) THEN 0 ELSE Val(availability)
        point  == [t |-> iso, availability |-> Round6(value, 1)]
        series == IF got = <<>> \/ got[Len(got)].t # iso
                  THEN LastN(Append(got, point), MinuteCap)
                  ELSE [got EXCEPT ![Len(got)] = point]
    IN  Put(minute_samples, component_name, series)

append_minute_sample(minute_samples, component_name, bucket_end, availability) ==
    LET got    == Get(minute_samples, component_name, <<>>)
        iso    == IsoMinute(bucket_end)
        value  == IF IsNone(availability) THEN 0 ELSE Val(availability)
        series == IF got = <<>> \/ got[Len(got)].t # iso
                  THEN LastN(Append(got, [t |-> iso, availability |-> Round6(value, 1)]),
                             MinuteCap)
                  ELSE got
    IN  Put(minute_samples, component_name, series)

-----------------------------------------------------------------------------
(* Daily rollup engine *)

\* sorted(keys): the elements of a finite set of day numbers, ascending (the
\* code sorts YYYY-MM-DD strings, whose order is the order of the days)
Sorted(S) ==
    [i \in 1..Cardinality(S) |-> CHOOSE x \in S : Cardinality({y \in S : y < x}) = i - 1]

\* sum(vals) for the values series[i].availability, i \in idx, added up value
\* by value (each distinct value times the number of its occurrences)
RECURSIVE SumByValue(_, _, _)
SumByValue(vs, series, idx) ==
    IF vs = {} THEN 0
    ELSE LET v == CHOOSE x \in vs : TRUE
         IN  v * Cardinality({i \in idx : series[i].availability = v})
             + SumByValue(vs \ {v}, series, idx)

\* the loop body that keeps the first 120 days instead of the last
DailyOfSeries_Oldest(series) ==
    LET by_day == {DatePrefix(series[i].t) : i \in DOMAIN series}
        keys   == Sorted(by_day)
        mean(d) == LET idx == {i \in DOMAIN series : DatePrefix(series[i].t) = d}
                       vs  == {series[i].availability : i \in idx}
                   IN  Round6(SumByValue(vs, series, idx), Cardinality(idx))
        days   == [k \in 1..Len(keys) |-> [date |-> keys[k], pct |-> mean(keys[k])]]
    IN  IF Len(days) <= DayCap THEN days ELSE SubSeq(days, 1, DayCap)

\* the body of the loop over minute_samples.items(): one component's days
DailyOfSeries(series) ==
    LET by_day == {DatePrefix(series[i].t) : i \in DOMAIN series}
        keys   == Sorted(by_day)
        mean(d) == LET idx == {i \in DOMAIN series : DatePrefix(series[i].t) = d}
                       vs  == {series[i].availability : i \in idx}
                   IN  Round6(SumByValue(vs, series, idx), Cardinality(idx))
        days   == [k \in 1..Len(keys) |-> [date |-> keys[k], pct |-> mean(keys[k])]]
    IN  LastN(days, DayCap)

rollup_daily_per_component(minute_samples) ==
    [comp \in DOMAIN minute_samples |-> DailyOfSeries(minute_samples[comp])]

\* sum of the pct of date d over the components that have a row for d
RECURSIVE SumPct(_, _, _)
SumPct(comps, daily_by_comp, d) ==
    IF comps = {} THEN 0
    ELSE LET c   == CHOOSE x \in comps : TRUE
             row == CHOOSE k \in DOMAIN daily_by_comp[c] : daily_by_comp[c][k].date = d
         IN  daily_by_comp[c][row].pct + SumPct(comps \ {c}, daily_by_comp, d)

\* the merge that divides by the number of all components, a component without
\* the date counting as zero
merge_overall_daily_ZeroForMissing(daily_by_comp) ==
    LET has(c, d) == \E k \in DOMAIN daily_by_comp[c] : daily_by_comp[c][k].date = d
        bucket == UNION {{daily_by_comp[c][k].date : k \in DOMAIN daily_by_comp[c]} :
                           c \in DOMAIN daily_by_comp}
        keys   == Sorted(bucket)
        mean(d) == LET comps == {c \in DOMAIN daily_by_comp : has(c, d)}
                   IN  Round6(SumPct(comps, daily_by_comp, d),
                              Cardinality(DOMAIN daily_by_comp))
        out    == [k \in 1..Len(keys) |-> [date |-> keys[k], pct |-> mean(keys[k])]]
    IN  LastN(out, DayCap)

merge_overall_daily(daily_by_comp) ==
    LET has(c, d) == \E k \in DOMAIN daily_by_comp[c] : daily_by_comp[c][k].date = d
        bucket == UNION {{daily_by_comp[c][k].date : k \in DOMAIN daily_by_comp[c]} :
                           c \in DOMAIN daily_by_comp}
        keys   == Sorted(bucket)
        mean(d) == LET comps == {c \in DOMAIN daily_by_comp : has(c, d)}
                   IN  Round6(SumPct(comps, daily_by_comp, d), Cardinality(comps))
        out    == [k \in 1..Len(keys) |-> [date |-> keys[k], pct |-> mean(keys[k])]]
    IN  LastN(out, DayCap)

-----------------------------------------------------------------------------
(* Configuration and the metric source *)

Str_outage   == <<"o", "u", "t", "a", "g", "e">>
Str_degraded == <<"d", "e", "g", "r", "a", "d", "e", "d">>
Str_space    == <<" ">>

\* "Public Website (KSA)"
NameKSA == <<"P", "u", "b", "l", "i", "c", " ", "W", "e", "b", "s", "i", "t", "e", " ",
             "(", "K", "S", "A", ")">>
\* "Public Website (Global)"
GLOBAL_COMPONENT_NAME ==
    <<"P", "u", "b", "l", "i", "c", " ", "W", "e", "b", "s", "i", "t", "e", " ",
      "(", "G", "l", "o", "b", "a", "l", ")">>
\* {"name": "Publishing Pipeline"}
PUBLISHING_COMPONENT ==
    [name |-> <<"P", "u", "b", "l", "i", "s", "h", "i", "n", "g", " ",
              "P", "i", "p", "e", "l", "i", "n", "e">>]

MONITORS == << [name |-> NameKSA, monitor_id |-> "HTTP_CHECK-18ACCCACE63A1420", type |-> "HTTP"] >>

\* A response of requests.get: the SSLError exception, or a status code with the
\* values list of result[0].data[0] of the JSON body (a percentage or null each)
SslError == [kind |-> "ssl_error"]
Http(code, values) == [kind |-> "http", status_code |-> code, values |-> values]

\* query_metric / query_metric_fixed_minute after the request returned: the
\* parsed body, or None for a status other than 200
query_metric(r) == IF r.status_code # 200 THEN None ELSE Some(r.values)

\* a failed fetch read as the value 0 instead of None
last_value_ZeroOnFailure(series_json) ==
    IF IsNone(series_json) \/ Val(series_json) = <<>> THEN Some(0)
    ELSE Val(series_json)[1]

\* float(series_json["result"][0]["data"][0]["values"][0]), None on any exception
\* (None body, empty list, null value)
last_value(series_json) ==
    IF IsNone(series_json) \/ Val(series_json) = <<>> THEN None
    ELSE Val(series_json)[1]

\* float(vals[-1]), None for a None body, an empty list or a null value
extract_single_value(series_json) ==
    IF IsNone(series_json) \/ Val(series_json) = <<>> THEN None
    ELSE Val(series_json)[Len(Val(series_json))]

\* (pct / 100.0) if pct is not None else None
PctToFraction(pct) == IF IsNone(pct) THEN None ELSE Some(Val(pct) \div 100)

-----------------------------------------------------------------------------
(* Snapshot persistence *)

\* _load_previous: {} on a missing file or a JSON error
_load_previous(f) == IF f.state = "ok" THEN f.doc ELSE <<>>

\* _map_components_by_name: a later record of the same name replaces an earlier
RECURSIVE _map_components_by_name(_)
_map_components_by_name(components) ==
    IF components = <<>> THEN <<>>
    ELSE LET n == Len(components)
         IN  Put(_map_components_by_name(SubSeq(components, 1, n - 1)),
                 components[n].name, components[n])

-----------------------------------------------------------------------------
(* main(): the loop over MONITORS *)

\* responses[i] = [q15 |-> response of the 15m query, q1m |-> response of the
\* 1-minute query] of monitors[i]; acc = [minute_samples, components]
RECURSIVE MonitorLoop(_, _, _, _, _)
MonitorLoop(monitors, responses, i, bucket_end, acc) ==
    IF i > Len(monitors) THEN acc
    ELSE LET name == monitors[i].name
             availability_15m == PctToFraction(last_value(query_metric(responses[i].q15)))
             availability_1m  ==
                 PctToFraction(extract_single_value(query_metric(responses[i].q1m)))
             p95_load_ms == None
             ttfb_ms == None
             status == component_status(availability_15m, p95_load_ms)
         IN  MonitorLoop(monitors, responses, i + 1, bucket_end,
                 [minute_samples |->
                      append_minute_sample(acc.minute_samples, name, bucket_end,
                                           availability_1m),
                  components |->
                      Append(acc.components,
                             [name |-> name, status |-> status,
                              p95_load_ms |-> p95_load_ms, ttfb_ms |-> ttfb_ms,
                              availability |-> availability_15m])])

-----------------------------------------------------------------------------
(* main(): incident management *)

IncidentTitle(name, cur_status) ==
    name \o Str_space \o (IF cur_status = "degraded_performance" THEN Str_degraded
                          ELSE Str_outage)

IncidentDescription(cur_status) ==
    IF cur_status = "degraded_performance"
    THEN "Status changed to degraded performance based on 15m availability/SLO."
    ELSE IF cur_status = "major_outage"
         THEN "Status changed to major outage based on 15m availability/SLO."
         ELSE "Status changed to operational based on 15m availability/SLO."

\* an incident opened in every run that finds the component non-operational
OpensIncident_EveryRun(prev_status, cur_status) ==
    cur_status \in {"degraded_performance", "major_outage"}

\* prev_status == "operational" and cur_status in {...}
OpensIncident(prev_status, cur_status) ==
    prev_status = "operational" /\ cur_status \in {"degraded_performance", "major_outage"}

\* a recovery recognised from degraded_performance only
ClosesIncident_DegradedOnly(prev_status, cur_status) ==
    prev_status = "degraded_performance" /\ cur_status = "operational"

\* prev_status in {...} and cur_status == "operational"
ClosesIncident(prev_status, cur_status) ==
    prev_status \in {"degraded_performance", "major_outage"} /\ cur_status = "operational"

\* the match without the test that the incident is still open
MatchesOpen_AnyEndTime(inc, name) == Contains(inc.title, FirstToken(name))

\* inc.get("endTime") is None and name.split()[0] in inc.get("title", "")
MatchesOpen(inc, name) == IsNone(inc.endTime) /\ Contains(inc.title, FirstToken(name))

\* incidents.insert(0, {...})
OpenIncident(incidents, name, cur_status, now_iso) ==
    << [title |-> IncidentTitle(name, cur_status),
        description |-> IncidentDescription(cur_status),
        startTime |-> Some(now_iso),
        endTime |-> None] >> \o incidents

\* the loop without its break: every matching open incident is closed
CloseIncident_All(incidents, name, now_iso) ==
    [j \in DOMAIN incidents |->
        IF MatchesOpen(incidents[j], name)
        THEN [incidents[j] EXCEPT !.endTime = Some(now_iso)]
        ELSE incidents[j]]

\* for inc in incidents: if <match>: inc["endTime"] = now_iso; break
CloseIncident(incidents, name, now_iso) ==
    LET hits == {j \in DOMAIN incidents : MatchesOpen(incidents[j], name)}
    IN  IF hits = {} THEN incidents
        ELSE [incidents EXCEPT ![Min(hits)].endTime = Some(now_iso)]

\* the pass that takes major_outage as the status of a component the loaded
\* document has no record of
IncidentStep_DefaultOutage(incidents, c, prev_components_map, now_iso) ==
    LET prev_rec    == Get(prev_components_map, c.name, <<>>)
        prev_status == Get(prev_rec, "status", "major_outage")
        opened == IF OpensIncident(prev_status, c.status)
                  THEN OpenIncident(incidents, c.name, c.status, now_iso)
                  ELSE incidents
    IN  IF ClosesIncident(prev_status, c.status)
        THEN CloseIncident(opened, c.name, now_iso)
        ELSE opened

\* one pass of `for c in components`
IncidentStep(incidents, c, prev_components_map, now_iso) ==
    LET prev_rec    == Get(prev_components_map, c.name, <<>>)
        prev_status == Get(prev_rec, "status", "operational")
        opened == IF OpensIncident(prev_status, c.status)
                  THEN OpenIncident(incidents, c.name, c.status, now_iso)
                  ELSE incidents
    IN  IF ClosesIncident(prev_status, c.status)
        THEN CloseIncident(opened, c.name, now_iso)
        ELSE opened

RECURSIVE IncidentLoop(_, _, _, _, _)
IncidentLoop(components, i, incidents, prev_components_map, now_iso) ==
    IF i > Len(components) THEN incidents
    ELSE IncidentLoop(components, i + 1,
                      IncidentStep(incidents, components[i], prev_components_map, now_iso),
                      prev_components_map, now_iso)

\* the two tests in the other order: a degraded component hides an outage
GlobalStatus_DegradedFirst(components) ==
    IF \E k \in DOMAIN components : components[k].status = "degraded_performance"
    THEN "degraded_performance"
    ELSE IF \E k \in DOMAIN components : components[k].status = "major_outage"
         THEN "major_outage"
         ELSE "operational"

GlobalStatus(components) ==
    IF \E k \in DOMAIN components : components[k].status = "major_outage"
    THEN "major_outage"
    ELSE IF \E k \in DOMAIN components : components[k].status = "degraded_performance"
         THEN "degraded_performance"
         ELSE "operational"

-----------------------------------------------------------------------------
(* main() *)

\* The document main() writes, given the loaded document prev, the monitor list,
\* one pair of responses per monitor (none of them an SSLError), the rounded
\* minute bucket_end read at the start and the time now_iso read after the loop
Health(prev, monitors, responses, bucket_end, now_iso) ==
    LET prev_components_map == _map_components_by_name(Get(prev, "components", <<>>))
        looped == MonitorLoop(monitors, responses, 1, bucket_end,
                      [minute_samples |-> Get(prev, "minute_samples", <<>>),
                       components |-> <<>>])
        incidents == IncidentLoop(looped.components, 1, Get(prev, "incidents", <<>>),
                                  prev_components_map, now_iso)
        global_status == GlobalStatus(looped.components)
        components ==
            << [name |-> GLOBAL_COMPONENT_NAME, status |-> global_status] >>
            \o looped.components
            \o << [name |-> PUBLISHING_COMPONENT.name, status |-> "operational",
                   last_publish_age_h |-> 3] >>
        daily_by_comp == rollup_daily_per_component(looped.minute_samples)
        overall_daily == merge_overall_daily(daily_by_comp)
    IN  [updatedAt |-> IsoMinute(bucket_end),
         components |-> components,
         incidents |-> incidents,
         uptime |-> overall_daily,
         daily_uptime |-> daily_by_comp,
         minute_samples |-> looped.minute_samples]

\* A run in which every request returns: the document is written.  t_bucket is
\* the clock at round_now_to_minute_utc(), t_now the clock at now_iso.
RunOk(monitors, responses, t_bucket, t_now) ==
    /\ clock < t_bucket /\ t_bucket <= t_now
    /\ \A i \in DOMAIN monitors :
          responses[i].q15.kind = "http" /\ responses[i].q1m.kind = "http"
    /\ LET prev == _load_previous(file)
           bucket_end == t_bucket \div TicksPerMinute
           health == Health(prev, monitors, responses, bucket_end, t_now)
       IN  /\ file' = [state |-> "ok", doc |-> health]
           /\ runs' = Append(runs, [outcome |-> "wrote", monitors |-> monitors,
                                    responses |-> responses,
                                    prev |-> prev, health |-> health,
                                    bucket_end |-> bucket_end, now_iso |-> t_now])
    /\ clock' = t_now
    /\ UNCHANGED <<args, ret>>

\* the document opened for writing before the queries: the exception leaves a
\* truncated file behind
RunSslError_PartialWrite(monitors, i, query, t_bucket) ==
    /\ clock < t_bucket
    /\ i \in DOMAIN monitors
    /\ runs' = Append(runs, [outcome |-> "ssl_error", monitors |-> monitors,
                             failed_at |-> i, failed_query |-> query,
                             prev |-> _load_previous(file),
                             bucket_end |-> t_bucket \div TicksPerMinute])
    /\ clock' = t_bucket
    /\ file' = [state |-> "corrupt"]
    /\ UNCHANGED <<args, ret>>

\* A run in which the request `query` ("q15" or "q1m") of monitors[i] raises
\* SSLError: the exception leaves main() before the document is opened for writing
RunSslError(monitors, i, query, t_bucket) ==
    /\ clock < t_bucket
    /\ i \in DOMAIN monitors
    /\ runs' = Append(runs, [outcome |-> "ssl_error", monitors |-> monitors,
                             failed_at |-> i, failed_query |-> query,
                             prev |-> _load_previous(file),
                             bucket_end |-> t_bucket \div TicksPerMinute])
    /\ clock' = t_bucket
    /\ UNCHANGED <<file, args, ret>>

-----------------------------------------------------------------------------
(* Inputs explored *)

NameX    == <<"X">>
NameWebA == <<"W", "e", "b", " ", "A">>
NameWebB == <<"W", "e", "b", " ", "B">>

Monitor(name) == [name |-> name, monitor_id |-> "HTTP_CHECK", type |-> "HTTP"]

\* percentages, in units of 1/Unit of a percent
Pct(whole, millionths) == whole * Unit + millionths

RespDown   == Http(503, <<>>)
RespFull   == Http(200, <<Some(Pct(100, 0))>>)
RespLow    == Http(200, <<Some(Pct(99, 800000))>>)
RespHalf   == Http(200, <<Some(Pct(50, 0))>>)

\* how far the clock may have moved when a run reads it
Steps == {1, TicksPerMinute}
Lags  == {0, 1}

NoCall == [fn |-> "none"]

\* the runs of main() that wrote the document, oldest first
Wrote == SelectSeq(runs, LAMBDA r : r.outcome = "wrote")

RunWith(configs, resp15, resp1m, steps, lags) ==
    \E monitors \in configs, step \in steps, lag \in lags :
        \E responses \in [DOMAIN monitors -> [q15 : resp15, q1m : resp1m]] :
            RunOk(monitors, responses, clock + step, clock + step + lag)

RunAbortedWith(configs, steps) ==
    \E monitors \in configs, step \in steps :
        \E i \in DOMAIN monitors, query \in {"q15", "q1m"} :
            RunSslError(monitors, i, query, clock + step)

-----------------------------------------------------------------------------
(* Spec: runs of main() over two monitors whose names share their first word, *)
(* the second of them configured in some runs only                           *)

MonitorConfigs == {<<Monitor(NameWebA), Monitor(NameWebB)>>, <<Monitor(NameWebA)>>}

Init ==
    /\ file \in {[state |-> "missing"], [state |-> "corrupt"]}
    /\ clock = 0
    /\ runs = <<>>
    /\ args = NoCall
    /\ ret = NoCall

Run == Len(runs) < MaxRuns /\ RunWith(MonitorConfigs, {RespDown, RespFull}, {RespFull}, Steps, Lags)

RunAborted == Len(runs) < MaxRuns /\ RunAbortedWith(MonitorConfigs, {1})

Next == Run \/ RunAborted

Spec == Init /\ [][Next]_vars

-----------------------------------------------------------------------------
(* SpecX: runs of main() with the single monitor "X", from a first run *)

MaxRunsX == 4

RunX == Len(runs) < MaxRunsX
        /\ RunWith({<<Monitor(NameX)>>}, {RespDown, RespFull, RespLow}, {RespFull}, Steps, Lags)

RunAbortedX == Len(runs) < MaxRunsX /\ RunAbortedWith({<<Monitor(NameX)>>}, {1})

NextX == RunX \/ RunAbortedX

SpecX == Init /\ [][NextX]_vars

-----------------------------------------------------------------------------
(* Reading the history of runs *)

\* the per-monitor component records a writing run computed (the document's
\* list without the global record in front and the publishing record at the end)
Evaluated(run) == SubSeq(run.health.components, 2, Len(run.health.components) - 1)

\* the status the document loaded by a run records for a name; operational when
\* the document has no record of that name
LoadedStatus(run, name) ==
    LET comps == Get(run.prev, "components", <<>>)
        at    == {k \in DOMAIN comps : comps[k].name = name}
    IN  IF at = {} THEN "operational" ELSE comps[Max(at)].status

LoadedIncidents(run) == Get(run.prev, "incidents", <<>>)

NonOperational == {"degraded_performance", "major_outage"}

\* the status of the single evaluated component of a run
StatusX(run) == Evaluated(run)[1].status

\* the incident was opened for the component called name
OpenedFor(inc, name) ==
    inc.title \in {name \o Str_space \o Str_outage, name \o Str_space \o Str_degraded}

-----------------------------------------------------------------------------
(* C1 *)

\* C1: with X the only monitored component and a first-run start, after the
\* writing runs operational, major_outage, operational the document holds exactly
\* one incident, started at the time of the outage run and ended at the later
\* time of the recovery run; and while X stays in major_outage after the runs
\* operational, major_outage, the document written by every further run holds
\* exactly one incident, whose endTime is null.
C1_IncidentLifecycle ==
    LET W == Wrote
    IN  /\ (Len(W) >= 3 /\ StatusX(W[1]) = "operational" /\ StatusX(W[2]) = "major_outage"
              /\ StatusX(W[3]) = "operational")
           => LET incs == W[3].health.incidents
              IN  /\ Len(incs) = 1
                  /\ incs[1].startTime = Some(W[2].now_iso)
                  /\ incs[1].endTime = Some(W[3].now_iso)
                  /\ W[3].now_iso > W[2].now_iso
        /\ \A n \in 2..Len(W) :
              (StatusX(W[1]) = "operational"
                 /\ \A k \in 2..n : StatusX(W[k]) = "major_outage")
              => LET incs == W[n].health.incidents
                 IN  /\ Len(incs) = 1
                     /\ incs[1].startTime = Some(W[2].now_iso)
                     /\ IsNone(incs[1].endTime)

\* the three runs happened and the document on disk holds the closed incident
C1_Witness ==
    /\ Len(Wrote) = 3
    /\ StatusX(Wrote[1]) = "operational" /\ StatusX(Wrote[2]) = "major_outage"
    /\ StatusX(Wrote[3]) = "operational"
    /\ file.state = "ok" /\ Len(file.doc.incidents) = 1
    /\ ~IsNone(file.doc.incidents[1].endTime)

-----------------------------------------------------------------------------
(* C2 - C5: the incident list across runs *)

\* the evaluated components of a run that crossed from non-operational (loaded
\* document) to operational (this run)
Recovered(run) ==
    {c \in {Evaluated(run)[k] : k \in DOMAIN Evaluated(run)} :
        LoadedStatus(run, c.name) \in NonOperational /\ c.status = "operational"}

\* the positions of the evaluated components of a run that crossed from
\* operational (or absent) to non-operational
Openers(run) ==
    {k \in DOMAIN Evaluated(run) :
        /\ LoadedStatus(run, Evaluated(run)[k].name) = "operational"
        /\ Evaluated(run)[k].status \in NonOperational}

\* the number of incidents a run put in front of the loaded list
Added(run) == Len(run.health.incidents) - Len(LoadedIncidents(run))

\* C2: an incident whose endTime a run sets was opened for a component that
\* recovered in that run.
C2_ClosedForOwnComponent ==
    \A n \in DOMAIN Wrote :
        LET run == Wrote[n]
            old == LoadedIncidents(run)
            new == run.health.incidents
        IN  \A j \in DOMAIN old :
               (IsNone(old[j].endTime) /\ ~IsNone(new[Added(run) + j].endTime))
               => \E c \in Recovered(run) : OpenedFor(old[j], c.name)

\* C3: a run prepends one incident per evaluated component that crossed from
\* operational (or absent) to non-operational, titled for that component and
\* started at the run time with endTime null, and no other; and a run in which
\* no evaluated component recovers (each stays, or moves among the
\* non-operational statuses, or is one of those that opened) leaves every
\* loaded incident as it was.
C3_OpenOnlyOnBoundaryCrossing ==
    \A n \in DOMAIN Wrote :
        LET run  == Wrote[n]
            old  == LoadedIncidents(run)
            new  == run.health.incidents
            ev   == Evaluated(run)
            ops  == Sorted(Openers(run))
        IN  /\ Added(run) = Len(ops)
            /\ \A i \in DOMAIN ops :
                  LET inc == new[Len(ops) + 1 - i]
                  IN  /\ OpenedFor(inc, ev[ops[i]].name)
                      /\ inc.startTime = Some(run.now_iso)
            /\ (Recovered(run) = {}) =>
                  /\ SubSeq(new, Added(run) + 1, Len(new)) = old
                  /\ \A i \in 1..Added(run) : IsNone(new[i].endTime)

\* a run opened an incident for one component while another one, already in
\* major_outage in the loaded document, stayed there
C3_Witness ==
    \E n \in DOMAIN Wrote :
        LET run == Wrote[n]
            ev  == Evaluated(run)
        IN  /\ Openers(run) # {}
            /\ \E k \in DOMAIN ev : /\ LoadedStatus(run, ev[k].name) = "major_outage"
                                    /\ ev[k].status = "major_outage"
            /\ Len(LoadedIncidents(run)) >= 1
            /\ Len(run.health.incidents) = Len(LoadedIncidents(run)) + 1

\* C4: a run leaves unchanged every loaded open incident that was opened for a
\* component the run does not evaluate.
C4_OmittedComponentUntouched ==
    \A n \in DOMAIN Wrote :
        LET run == Wrote[n]
            old == LoadedIncidents(run)
            new == run.health.incidents
            names == {run.monitors[k].name : k \in DOMAIN run.monitors}
        IN  \A j \in DOMAIN old :
               (IsNone(old[j].endTime) /\ ~\E nm \in names : OpenedFor(old[j], nm))
               => new[Added(run) + j] = old[j]

\* C5: the incidents a run loaded are all in the document it writes, in the same
\* order, behind the incidents the run opened (which start at the run time);
\* title and startTime are unchanged, and endTime is unchanged or goes from null
\* to the run time.
C5_AppendAtFrontHistory ==
    \A n \in DOMAIN Wrote :
        LET run == Wrote[n]
            old == LoadedIncidents(run)
            new == run.health.incidents
        IN  /\ Added(run) >= 0
            /\ \A i \in 1..Added(run) : new[i].startTime = Some(run.now_iso)
            /\ \A j \in DOMAIN old :
                  LET was == old[j]
                      is  == new[Added(run) + j]
                  IN  /\ is.title = was.title
                      /\ is.startTime = was.startTime
                      /\ was.startTime # Some(run.now_iso)
                      /\ \/ is.endTime = was.endTime
                         \/ IsNone(was.endTime) /\ is.endTime = Some(run.now_iso)

\* a run loaded a closed and an open incident, opened none and closed the open one
C5_Witness ==
    \E n \in DOMAIN Wrote :
        LET run == Wrote[n]
            old == LoadedIncidents(run)
            new == run.health.incidents
        IN  /\ Len(new) = Len(old)
            /\ \E j \in DOMAIN old : ~IsNone(old[j].endTime)
            /\ \E j \in DOMAIN old : IsNone(old[j].endTime) /\ ~IsNone(new[j].endTime)

-----------------------------------------------------------------------------
(* SpecStore: direct calls of append_minute_sample on stores that runs made *)

MaxCalls == 2

\* n samples of consecutive minutes, the first at minute `first`
SeriesOf(first, n, availability) ==
    [i \in 1..n |-> [t |-> IsoMinute(first + i - 1), availability |-> availability]]

\* stores in which the series of "Web A" is absent, short, one below the cap or
\* at the cap, with or without a short series of "Web B"
InitStores ==
    {[c \in names |-> IF c = NameWebA THEN SeriesOf(0, n, Unit) ELSE SeriesOf(0, 1, 0)] :
        names \in {{NameWebA}, {NameWebA, NameWebB}}, n \in {1, MinuteCap - 1, MinuteCap}}
    \cup {<<>>, [c \in {NameWebB} |-> SeriesOf(0, 1, 0)]}

\* the minute of the last stored point of a component, 0 without one
LastMinute(store, c) ==
    LET series == Get(store, c, <<>>)
    IN  IF series = <<>> THEN 0
        ELSE series[Len(series)].t.date * MinutesPerDay + series[Len(series)].t.hm

InitStore ==
    /\ file = [state |-> "missing"]
    /\ clock = 0
    /\ runs = <<>>
    /\ args = [fn |-> "none", n |-> 0]
    /\ ret \in InitStores

\* append_minute_sample(ret, c, bucket_end, availability), for the minute of the
\* last point of c or the next one
CallAppend ==
    /\ args.n < MaxCalls
    /\ \E c \in {NameWebA, NameWebB}, d \in {0, 1}, availability \in {None, Some(Unit)} :
          LET bucket_end == LastMinute(ret, c) + d
          IN  /\ args' = [fn |-> "append_minute_sample", n |-> args.n + 1,
                          minute_samples |-> ret, component_name |-> c,
                          bucket_end |-> bucket_end, availability |-> availability,
                          before |-> args]
              /\ ret' = append_minute_sample(ret, c, bucket_end, availability)
    /\ UNCHANGED <<file, clock, runs>>

NextStore == CallAppend

SpecStore == InitStore /\ [][NextStore]_vars

-----------------------------------------------------------------------------
(* C6, C7 *)

\* C6: after every call no series has more than 10080 points, and the series of
\* the component appended to is the longest suffix, of at most 10080 points, of
\* the former series followed by the new point (or the former series itself when
\* the minute repeats); the other series are untouched.
C6_MinuteCapDropsOldest ==
    /\ \A c \in DOMAIN ret : Len(ret[c]) <= 10080
    /\ args.fn = "append_minute_sample" =>
          LET old  == Get(args.minute_samples, args.component_name, <<>>)
              new  == ret[args.component_name]
              last == new[Len(new)]
              full == IF old # <<>> /\ old[Len(old)].t = IsoMinute(args.bucket_end)
                      THEN old ELSE old \o <<last>>
              drop == Len(full) - Len(new)
          IN  /\ last.t = IsoMinute(args.bucket_end)
              /\ drop = IF Len(full) > 10080 THEN Len(full) - 10080 ELSE 0
              /\ \A i \in DOMAIN new : new[i] = full[drop + i]
              /\ \A c \in DOMAIN args.minute_samples :
                    c # args.component_name => ret[c] = args.minute_samples[c]

\* a call on a series at the cap added a point and dropped the oldest one
C6_Witness ==
    /\ args.fn = "append_minute_sample"
    /\ LET old == Get(args.minute_samples, args.component_name, <<>>)
           new == ret[args.component_name]
       IN  /\ Len(old) = 10080 /\ Len(new) = 10080
           /\ new[10080].t # old[10080].t
           /\ new[1] = old[2]

\* the call about to be made repeats the component and minute of the last call
Repeats(a, b) ==
    /\ a.fn = "append_minute_sample" /\ b.fn = "append_minute_sample"
    /\ a.component_name = b.component_name /\ a.bucket_end = b.bucket_end

-----------------------------------------------------------------------------
(* SpecStatus: direct calls of component_status *)

AvailabilityInputs ==
    {None} \cup {Some(a) : a \in {0, 500000, 998000, 998999, 999000, 999001, 999500, 999900,
                                  999999, 1000000}}
LoadInputs ==
    {None} \cup {Some(ms) : ms \in {0, 1, 500, 2500, 2999, 3000, 3001, 3500, 6000, 100000}}

InitStatus ==
    /\ file = [state |-> "missing"]
    /\ clock = 0
    /\ runs = <<>>
    /\ args = [fn |-> "none"]
    /\ ret = None

CallStatus ==
    /\ \E availability \in AvailabilityInputs, p95_load_ms \in LoadInputs :
          /\ args' = [fn |-> "component_status", availability |-> availability,
                      p95_load_ms |-> p95_load_ms]
          /\ ret' = component_status(availability, p95_load_ms)
    /\ UNCHANGED <<file, clock, runs>>

NextStatus == CallStatus

SpecStatus == InitStatus /\ [][NextStatus]_vars

\* C10: component_status returns major_outage when availability is null or
\* below 0.999, whatever p95_load_ms is; otherwise degraded_performance when
\* p95_load_ms is known and above 3000; otherwise operational.  Availability
\* 0.999 with p95_load_ms 3000 is operational.
C10_StatusDecisionTable ==
    args.fn = "component_status" =>
        LET a == args.availability
            p == args.p95_load_ms
        IN  /\ (a = None \/ a[1] < 999000) => ret = "major_outage"
            /\ (a # None /\ a[1] >= 999000 /\ p # None /\ p[1] > 3000)
                  => ret = "degraded_performance"
            /\ (a # None /\ a[1] >= 999000 /\ (p = None \/ p[1] <= 3000))
                  => ret = "operational"
            /\ (a = <<999000>> /\ p = <<3000>>) => ret = "operational"

\* the call at both boundary values
C10_Witness ==
    /\ args.fn = "component_status"
    /\ args.availability = <<999000>> /\ args.p95_load_ms = <<3000>>
    /\ ret = "operational"

-----------------------------------------------------------------------------
(* SpecRollup: runs of main() with the configured MONITORS, the 1-minute      *)
(* availability varying, the clock moving by a tick, a minute or a day        *)

MaxRunsR == 4

DayTicks == TicksPerMinute * MinutesPerDay

RunR == Len(runs) < MaxRunsR
        /\ RunWith({MONITORS}, {RespFull}, {RespDown, RespFull, RespHalf},
                   {1, TicksPerMinute, DayTicks}, {0})

RunAbortedR == Len(runs) < MaxRunsR /\ RunAbortedWith({MONITORS}, {1})

NextR == RunR \/ RunAbortedR

SpecRollup == Init /\ [][NextR]_vars

\* the run loaded a written document and its bucket is the minute of the last
\* stored sample of every monitor
AddsNoSample(run) ==
    /\ run.prev # <<>>
    /\ \A k \in DOMAIN run.monitors :
          LET series == Get(run.prev.minute_samples, run.monitors[k].name, <<>>)
          IN  series # <<>> /\ series[Len(series)].t = IsoMinute(run.bucket_end)

\* C9: a run that loads a written document and adds no minute sample writes the
\* daily_uptime and uptime fields of the loaded document.
C9_RollupRoundTrip ==
    \A n \in DOMAIN Wrote :
        AddsNoSample(Wrote[n]) =>
            /\ Wrote[n].health.daily_uptime = Wrote[n].prev.daily_uptime
            /\ Wrote[n].health.uptime = Wrote[n].prev.uptime

\* such a run happened with a history of two days, and its 1-minute query
\* answered another availability than the one stored for that minute
C9_Witness ==
    \E n \in DOMAIN Wrote :
        LET run == Wrote[n]
            series == run.prev.minute_samples[NameKSA]
        IN  /\ AddsNoSample(run)
            /\ Len(run.prev.daily_uptime[NameKSA]) = 2
            /\ run.responses[1].q1m = RespDown
            /\ series[Len(series)].availability = Unit \div 2

-----------------------------------------------------------------------------
(* SpecWeek: runs of main() once a minute, continuing a week of such runs     *)

MaxRunsW == 2

\* the document written by the run of minute first + MinuteCap - 1, the last of
\* MinuteCap runs made one per minute from minute `first`, all of which found
\* the configured monitor fully available
WeekDoc(first) ==
    Health([components |-> << [name |-> NameKSA, status |-> "operational"] >>,
            incidents |-> <<>>,
            minute_samples |-> [c \in {NameKSA} |-> SeriesOf(first, MinuteCap - 1, Unit)]],
           MONITORS, << [q15 |-> RespFull, q1m |-> RespFull] >>,
           first + MinuteCap - 1, (first + MinuteCap - 1) * TicksPerMinute)

\* the week started at midnight, at noon, or in the last minute of a day
WeekStarts == {0, MinutesPerDay \div 2, MinutesPerDay - 1}

InitWeek ==
    /\ \E first \in WeekStarts :
          /\ file = [state |-> "ok", doc |-> WeekDoc(first)]
          /\ clock = (first + MinuteCap - 1) * TicksPerMinute
    /\ runs = <<>>
    /\ args = NoCall
    /\ ret = NoCall

RunW == Len(runs) < MaxRunsW
        /\ RunWith({MONITORS}, {RespFull}, {RespDown, RespFull, RespHalf},
                   {TicksPerMinute, 2 * TicksPerMinute}, {0})

RunAbortedW == Len(runs) < MaxRunsW /\ RunAbortedWith({MONITORS}, {TicksPerMinute})

NextW == RunW \/ RunAbortedW

SpecWeek == InitWeek /\ [][NextW]_vars

DatesOf(rows) == {rows[k].date : k \in DOMAIN rows}

\* the rows of `was` whose date is among the 120 most recent dates of the two
\* series still have a row in `is`
Retained(was, is) ==
    \A d \in DatesOf(was) :
        Cardinality({x \in DatesOf(was) \cup DatesOf(is) : x > d}) < 120
        => d \in DatesOf(is)

\* C8: a daily record written for a component and date, and the record of that
\* date in uptime, are still in every later document while the date is among
\* the 120 most recent days with data.
C8_DailyRetainedFor120Days ==
    \A n \in DOMAIN Wrote :
        LET was == Wrote[n].prev
            is  == Wrote[n].health
        IN  /\ \A c \in DOMAIN Get(was, "daily_uptime", <<>>) :
                  Retained(was.daily_uptime[c], Get(is.daily_uptime, c, <<>>))
            /\ Retained(Get(was, "uptime", <<>>), is.uptime)

-----------------------------------------------------------------------------
(* SpecGlobal: runs of main() over the two monitors, and the global status    *)
(* block of main() evaluated directly on lists of one to three components     *)

MaxRunsG == 2

Statuses == {"operational", "degraded_performance", "major_outage"}

\* component lists of the names X, Web A, Web B in that order, any status each
StatusLists ==
    UNION {{[k \in 1..n |-> [name |-> <<NameX, NameWebA, NameWebB>>[k], status |-> st[k]]] :
                st \in [1..n -> Statuses]} : n \in 1..3}

RunG == /\ Len(runs) < MaxRunsG /\ args = NoCall
        /\ RunWith(MonitorConfigs, {RespDown, RespFull, RespLow}, {RespFull}, Steps, {0})

RunAbortedG == /\ Len(runs) < MaxRunsG /\ args = NoCall
               /\ RunAbortedWith(MonitorConfigs, {1})

CallGlobal ==
    /\ runs = <<>> /\ args = NoCall
    /\ \E components \in StatusLists :
          /\ args' = [fn |-> "global_status", components |-> components]
          /\ ret' = GlobalStatus(components)
    /\ UNCHANGED <<file, clock, runs>>

NextG == RunG \/ RunAbortedG \/ CallGlobal

SpecGlobal == Init /\ [][NextG]_vars

Severity(status) ==
    CASE status = "operational" -> 0
      [] status = "degraded_performance" -> 1
      [] status = "major_outage" -> 2

\* status is the worst of the statuses of the component records
IsWorstOf(status, components) ==
    /\ \E k \in DOMAIN components : components[k].status = status
    /\ \A k \in DOMAIN components : Severity(components[k].status) <= Severity(status)

\* C11: in every document a run writes, the first component record is the
\* global one and its status is the worst of the statuses computed in that run
\* for the monitors, in the order major_outage > degraded_performance >
\* operational (the global and publishing records take no part); the block
\* computing it returns the worst status of any list of component statuses.
C11_GlobalIsWorstStatus ==
    /\ \A n \in DOMAIN Wrote :
          LET comps == Wrote[n].health.components
              mons  == Wrote[n].monitors
          IN  /\ Len(comps) = Len(mons) + 2
              /\ comps[1].name = GLOBAL_COMPONENT_NAME
              /\ \A k \in DOMAIN mons : comps[k + 1].name = mons[k].name
              /\ IsWorstOf(comps[1].status, SubSeq(comps, 2, Len(mons) + 1))
    /\ args.fn = "global_status" => IsWorstOf(ret, args.components)

\* a run wrote a document with one monitor operational and the other in
\* major_outage
C11_Witness ==
    /\ file.state = "ok"
    /\ Len(file.doc.components) = 4
    /\ file.doc.components[2].status = "operational"
    /\ file.doc.components[3].status = "major_outage"
    /\ file.doc.components[1].status = "major_outage"

-----------------------------------------------------------------------------
(* SpecDaily: direct calls of rollup_daily_per_component on stores that runs  *)
(* made, and of merge_overall_daily on the result                             *)

MaxPerDay == 3

\* the availability of sample j (from 0) of a day, by pattern
PatternValue(pattern, day, j) ==
    CASE pattern = "full"  -> Unit
      [] pattern = "half"  -> IF j = 0 THEN Unit ELSE Unit \div 2
      [] pattern = "mixed" -> <<0, Unit, Unit \div 2>>[((day + j) % 3) + 1]

\* the series of runs made in the first perDay minutes of each of `days`
\* consecutive days from firstDay
DaySeries(firstDay, days, perDay, pattern) ==
    [i \in 1..(days * perDay) |->
        LET day == firstDay + (i - 1) \div perDay
            j   == (i - 1) % perDay
        IN  [t |-> IsoMinute(day * MinutesPerDay + j),
             availability |-> PatternValue(pattern, day, j)]]

\* "Web A" from day 0 over 1, 2 or about DayCap days, alone or with "Web B"
\* over the DayCap days from day 5
DailyStores ==
    {[c \in names |-> IF c = NameWebA THEN DaySeries(0, days, perDay, pattern)
                      ELSE DaySeries(5, DayCap, 1, "mixed")] :
        names \in {{NameWebA}, {NameWebA, NameWebB}},
        days \in {1, 2, DayCap - 1, DayCap, DayCap + 1, DayCap + 2},
        perDay \in 1..MaxPerDay,
        pattern \in {"full", "half", "mixed"}}

InitDaily ==
    /\ file = [state |-> "missing"]
    /\ clock = 0
    /\ runs = <<>>
    /\ args = NoCall
    /\ ret \in DailyStores

CallRollup ==
    /\ args.fn = "none"
    /\ args' = [fn |-> "rollup_daily_per_component", minute_samples |-> ret]
    /\ ret' = rollup_daily_per_component(ret)
    /\ UNCHANGED <<file, clock, runs>>

CallMerge ==
    /\ args.fn = "rollup_daily_per_component"
    /\ args' = [fn |-> "merge_overall_daily", daily_by_comp |-> ret]
    /\ ret' = merge_overall_daily(ret)
    /\ UNCHANGED <<file, clock, runs>>

NextDaily == CallRollup \/ CallMerge

SpecDaily == InitDaily /\ [][NextDaily]_vars

\* the dates of a set that have fewer than 120 later dates in it
Recent120(dates) == {d \in dates : Cardinality({x \in dates : x > d}) < 120}

\* rows are in strictly ascending date order
Ascending(rows) == \A k \in DOMAIN rows : \A l \in DOMAIN rows : k < l => rows[k].date < rows[l].date

\* pct is num / den rounded to the 6th decimal
IsRoundedMean(pct, num, den) == 2 * pct * den - 2 * num <= den /\ 2 * num - 2 * pct * den <= den

RECURSIVE SumAvailability(_, _)
SumAvailability(series, idx) ==
    IF idx = {} THEN 0
    ELSE LET i == CHOOSE x \in idx : TRUE
         IN  series[i].availability + SumAvailability(series, idx \ {i})

\* C12: for every component, rollup_daily_per_component returns one record per
\* date that has a sample, in ascending date order, of the 120 most recent
\* dates only (so at most 120 records), each with the mean of the availability
\* values of its date as pct.
C12_DailyRollup ==
    args.fn = "rollup_daily_per_component" =>
        /\ DOMAIN ret = DOMAIN args.minute_samples
        /\ \A c \in DOMAIN ret :
              LET series == args.minute_samples[c]
                  rows   == ret[c]
                  dates  == {series[i].t.date : i \in DOMAIN series}
              IN  /\ Len(rows) <= 120
                  /\ Ascending(rows)
                  /\ DatesOf(rows) = Recent120(dates)
                  /\ \A k \in DOMAIN rows :
                        LET idx == {i \in DOMAIN series : series[i].t.date = rows[k].date}
                        IN  IsRoundedMean(rows[k].pct, SumAvailability(series, idx),
                                          Cardinality(idx))

\* the rollup of 122 days of two samples each, 1.0 and 0.5: the 120 last days,
\* each at 0.75
C12_Witness ==
    /\ args.fn = "rollup_daily_per_component"
    /\ Len(args.minute_samples[NameWebA]) = 244
    /\ args.minute_samples[NameWebA][1].availability = 1000000
    /\ args.minute_samples[NameWebA][2].availability = 500000
    /\ Len(ret[NameWebA]) = 120
    /\ ret[NameWebA][1] = [date |-> 2, pct |-> 750000]

RECURSIVE SumOfRows(_, _, _)
SumOfRows(daily, comps, d) ==
    IF comps = {} THEN 0
    ELSE LET c == CHOOSE x \in comps : TRUE
             k == CHOOSE x \in DOMAIN daily[c] : daily[c][x].date = d
         IN  daily[c][k].pct + SumOfRows(daily, comps \ {c}, d)

\* C13: merge_overall_daily returns one record per date found in any
\* component's series, in ascending date order, of the 120 most recent dates
\* only (so at most 120 records), each with the mean of that date's pct over
\* the components that have the date.
C13_OverallMerge ==
    args.fn = "merge_overall_daily" =>
        LET daily == args.daily_by_comp
            dates == UNION {DatesOf(daily[c]) : c \in DOMAIN daily}
        IN  /\ Len(ret) <= 120
            /\ Ascending(ret)
            /\ DatesOf(ret) = Recent120(dates)
            /\ \A k \in DOMAIN ret :
                  LET comps == {c \in DOMAIN daily : ret[k].date \in DatesOf(daily[c])}
                  IN  IsRoundedMean(ret[k].pct, SumOfRows(daily, comps, ret[k].date),
                                    Cardinality(comps))

\* the merge of two series with 125 dates between them: 120 records, among them
\* a date that only "Web B" has, at the pct of "Web B", not halved
C13_Witness ==
    /\ args.fn = "merge_overall_daily"
    /\ DOMAIN args.daily_by_comp = {NameWebA, NameWebB}
    /\ Cardinality(DatesOf(args.daily_by_comp[NameWebA])
                   \cup DatesOf(args.daily_by_comp[NameWebB])) = 125
    /\ Len(ret) = 120
    /\ \E k \in DOMAIN ret :
          /\ ret[k].date \notin DatesOf(args.daily_by_comp[NameWebA])
          /\ ret[k].pct = 1000000

-----------------------------------------------------------------------------
(* C14 *)

\* the 15m query of monitor i of a writing run was answered with a status other
\* than 200
FetchFailed(run, i) == run.responses[i].q15.status_code # 200

\* C14: a run in which the 15m query of a component is answered with a status
\* other than 200 is not aborted: it evaluates every monitor, records null as
\* the availability of that component and major_outage as its status, gives
\* every component whose query returned 100% the status operational, and ends
\* by writing the document.
C14_FetchFailureDoesNotAbort ==
    /\ \A n \in DOMAIN runs :
          LET run == runs[n]
          IN  (run.outcome = "wrote") =>
                  /\ Len(Evaluated(run)) = Len(run.monitors)
                  /\ \A i \in DOMAIN run.monitors :
                        /\ Evaluated(run)[i].name = run.monitors[i].name
                        /\ FetchFailed(run, i) =>
                              /\ Evaluated(run)[i].availability = None
                              /\ Evaluated(run)[i].status = "major_outage"
                        /\ run.responses[i].q15 = RespFull =>
                              /\ Evaluated(run)[i].availability = Some(1000000)
                              /\ Evaluated(run)[i].status = "operational"
    /\ (runs # <<>> /\ runs[Len(runs)].outcome = "wrote")
          => file = [state |-> "ok", doc |-> runs[Len(runs)].health]

\* a run over two monitors in which the first fetch failed and the second did
\* not: the document is written, with an outage and an operational component
C14_Witness ==
    /\ runs # <<>>
    /\ LET run == runs[Len(runs)]
       IN  /\ run.outcome = "wrote"
           /\ Len(run.monitors) = 2
           /\ FetchFailed(run, 1)
           /\ ~FetchFailed(run, 2)
           /\ file.state = "ok"
           /\ file.doc.components[2].status = "major_outage"
           /\ file.doc.components[2].availability = None
           /\ file.doc.components[3].status = "operational"

-----------------------------------------------------------------------------
(* C15 *)

\* the step is a run that a TLS verification failure aborted
AbortedStep ==
    /\ Len(runs') = Len(runs) + 1
    /\ runs'[Len(runs')].outcome = "ssl_error"

\* C15: a run aborted by a TLS verification failure, at whichever monitor and
\* whichever of its two queries, leaves the document file exactly as it was
\* before the run: same samples, same incidents, same updatedAt.
C15_TlsFailureWritesNothing == [][AbortedStep => file' = file]_vars

\* a run aborted at the 1-minute query of the second monitor, after an earlier
\* run wrote a document with an open incident
C15_Witness ==
    /\ runs # <<>>
    /\ runs[Len(runs)].outcome = "ssl_error"
    /\ runs[Len(runs)].failed_at = 2
    /\ runs[Len(runs)].failed_query = "q1m"
    /\ file.state = "ok"
    /\ file.doc = runs[Len(runs)].prev
    /\ file.doc.incidents # <<>>
    /\ file.doc.updatedAt # IsoMinute(runs[Len(runs)].bucket_end)

-----------------------------------------------------------------------------
(* SpecLoad: runs of main() between which the document file may be deleted or *)
(* overwritten with text that is not JSON                                     *)

MaxRunsL == 3

RunL == Len(runs) < MaxRunsL
        /\ RunWith(MonitorConfigs, {RespDown, RespFull}, {RespFull}, Steps, {0})

RunAbortedL == Len(runs) < MaxRunsL /\ RunAbortedWith(MonitorConfigs, {1})

\* the file written by a run is lost or damaged before the next run opens it
Damage ==
    /\ Len(runs) < MaxRunsL
    /\ file.state = "ok"
    /\ file' \in {[state |-> "missing"], [state |-> "corrupt"]}
    /\ UNCHANGED <<clock, runs, args, ret>>

NextL == RunL \/ RunAbortedL \/ Damage

SpecLoad == Init /\ [][NextL]_vars

\* the step is a run that started with the file missing or corrupt and was not
\* aborted by a TLS failure
RunWithoutDocument ==
    /\ file.state \in {"missing", "corrupt"}
    /\ Len(runs') = Len(runs) + 1
    /\ runs'[Len(runs')].outcome = "wrote"

\* the document of a first run: one sample per monitor, taken in this run; one
\* open incident, started in this run, for each component found non-operational
\* and no other incident
FirstRunDocument(run) ==
    LET doc  == run.health
        down == {i \in DOMAIN run.monitors : Evaluated(run)[i].status \in NonOperational}
    IN  /\ DOMAIN doc.minute_samples = {run.monitors[i].name : i \in DOMAIN run.monitors}
        /\ \A c \in DOMAIN doc.minute_samples :
              /\ Len(doc.minute_samples[c]) = 1
              /\ doc.minute_samples[c][1].t = IsoMinute(run.bucket_end)
        /\ Len(doc.incidents) = Cardinality(down)
        /\ \A j \in DOMAIN doc.incidents :
              /\ doc.incidents[j].startTime = Some(run.now_iso)
              /\ doc.incidents[j].endTime = None
        /\ \A i \in down :
              \E j \in DOMAIN doc.incidents :
                  OpenedFor(doc.incidents[j], run.monitors[i].name)

\* C16: a run that finds the document file missing or corrupt is not failed by
\* it: it starts from empty minute samples and an empty incident list, takes
\* every component's previous status as operational (so it opens an incident
\* for each component it finds non-operational and closes none), and writes
\* its document.
C16_MissingOrCorruptIsFirstRun ==
    [][RunWithoutDocument =>
          /\ runs'[Len(runs')].prev = <<>>
          /\ FirstRunDocument(runs'[Len(runs')])
          /\ file' = [state |-> "ok", doc |-> runs'[Len(runs')].health]]_vars

\* a run wrote samples and an incident, the file was lost, and the next run
\* over two monitors wrote the document of a first run, with one incident
C16_Witness ==
    /\ Len(runs) = 2
    /\ runs[1].outcome = "wrote"
    /\ runs[1].health.incidents # <<>>
    /\ runs[2].outcome = "wrote"
    /\ runs[2].prev = <<>>
    /\ Len(runs[2].monitors) = 2
    /\ file.state = "ok"
    /\ Len(file.doc.incidents) = 1
    /\ file.doc.incidents[1].startTime = Some(runs[2].now_iso)
    /\ Len(file.doc.minute_samples[NameWebA]) = 1

-----------------------------------------------------------------------------
(* SpecClose: runs of main(), and the closing loop of lines 219-222 on the    *)
(* incident lists a loaded document may hold                                  *)

MaxRunsC == 2
MaxIncidents == 3

\* an incident a run opened at time 1, still open or closed at time 2
IncidentsOf(names) ==
    {[title |-> IncidentTitle(name, "major_outage"),
      description |-> IncidentDescription("major_outage"),
      startTime |-> Some(1), endTime |-> e] :
        name \in names, e \in {None, Some(2)}}

IncidentLists ==
    UNION {[1..n -> IncidentsOf({NameX, NameWebA, NameWebB})] : n \in 0..MaxIncidents}

RunC == /\ Len(runs) < MaxRunsC
        /\ args = NoCall
        /\ RunWith(MonitorConfigs, {RespDown, RespFull}, {RespFull}, Steps, {0})

RunAbortedC == /\ Len(runs) < MaxRunsC
               /\ args = NoCall
               /\ RunAbortedWith(MonitorConfigs, {1})

CallClose ==
    /\ runs = <<>>
    /\ args = NoCall
    /\ \E incidents \in IncidentLists, name \in {NameX, NameWebA, NameWebB} :
          /\ args' = [fn |-> "close", incidents |-> incidents, name |-> name, now_iso |-> 5]
          /\ ret' = CloseIncident(incidents, name, 5)
    /\ UNCHANGED <<file, clock, runs>>

NextC == RunC \/ RunAbortedC \/ CallClose

SpecClose == Init /\ [][NextC]_vars

\* the incident is open and its title contains the first word of name
OpenAndNamed(inc, name) == inc.endTime = None /\ Contains(inc.title, FirstToken(name))

\* `after` is `before` with the first incident that is open and named for name
\* closed at now_iso and nothing else changed; equal to `before` if there is none
ClosedFirstMatch(before, after, name, now_iso) ==
    /\ Len(after) = Len(before)
    /\ \A j \in DOMAIN before :
          IF OpenAndNamed(before[j], name)
             /\ \A i \in 1..(j - 1) : ~OpenAndNamed(before[i], name)
          THEN after[j] = [before[j] EXCEPT !.endTime = Some(now_iso)]
          ELSE after[j] = before[j]

\* the position in the evaluation order of the component that opened the
\* incident a run wrote at index j <= Added(run): the last opener is in front
OpenerOf(run, j) ==
    CHOOSE o \in Openers(run) : Cardinality({x \in Openers(run) : x > o}) = j - 1

\* the incident list as the pass of the component at position k of a run found
\* it, if no earlier pass of the run closed anything: the incidents opened by
\* the components before k, in front of the loaded ones
ListAtPass(run, k) ==
    LET new  == run.health.incidents
        seen == {j \in 1..Added(run) : OpenerOf(run, j) < k}
        skip == Added(run) - Cardinality(seen)
    IN  [j \in 1..(Len(new) - skip) |->
            IF j + skip <= Added(run) THEN [new[j + skip] EXCEPT !.endTime = None]
            ELSE LoadedIncidents(run)[j + skip - Added(run)]]

\* C17: the closing loop sets endTime = now on the first incident in list order
\* that has endTime null and whose title contains the first whitespace-delimited
\* word of the component's name, and changes nothing else; without such an
\* incident it changes nothing.  So a run closes at most as many incidents as
\* components recovered in it, and a run in which one component recovered
\* closes the first such incident of the list that component's pass found.
C17_ClosesFirstMatchOnly ==
    /\ args.fn = "close" =>
          ClosedFirstMatch(args.incidents, ret, args.name, args.now_iso)
    /\ \A n \in DOMAIN Wrote :
          LET run == Wrote[n]
              old == LoadedIncidents(run)
              new == run.health.incidents
              closed == {j \in DOMAIN new :
                            /\ new[j].endTime # None
                            /\ j > Added(run) => old[j - Added(run)].endTime = None}
          IN  /\ Cardinality(closed) <= Cardinality(Recovered(run))
              /\ \A k \in DOMAIN Evaluated(run) :
                    Recovered(run) = {Evaluated(run)[k]} =>
                        LET at   == ListAtPass(run, k)
                            skip == Len(new) - Len(at)
                        IN  /\ ClosedFirstMatch(at, SubSeq(new, skip + 1, Len(new)),
                                                Evaluated(run)[k].name, run.now_iso)
                            /\ \A j \in 1..skip : new[j].endTime = None

\* a run in which "Web A" recovered while two incidents were open, both with
\* "Web" in the title: the first is closed, the second still open
C17_Witness ==
    /\ Len(Wrote) = 2
    /\ Recovered(Wrote[2]) # {}
    /\ Len(LoadedIncidents(Wrote[2])) = 2
    /\ file = [state |-> "ok", doc |-> Wrote[2].health]
    /\ Len(file.doc.incidents) = 2
    /\ LoadedIncidents(Wrote[2])[1].endTime = None
    /\ LoadedIncidents(Wrote[2])[2].endTime = None
    /\ file.doc.incidents[1].endTime = Some(Wrote[2].now_iso)
    /\ file.doc.incidents[2].endTime = None

\* the loop called for "X" on a list whose open incidents are named for other
\* components: nothing changes
C17_WitnessNoMatch ==
    /\ args.fn = "close"
    /\ args.name = NameX
    /\ Len(args.incidents) = 2
    /\ args.incidents[1].endTime = None
    /\ ret = args.incidents

-----------------------------------------------------------------------------
(* C18 *)

\* minute timestamp t1 is before t2
Earlier(t1, t2) == t1.date < t2.date \/ (t1.date = t2.date /\ t1.hm < t2.hm)

\* the series a run loaded for a component, empty if it loaded none
LoadedSeries(run, c) == Get(Get(run.prev, "minute_samples", <<>>), c, <<>>)

\* C18: over runs whose rounded minute never goes backwards, in every document
\* written each component's series has strictly increasing timestamps; a run
\* leaves the series it loaded for a component as it is or appends one sample
\* to it; and the last sample of every monitor of the run is of the run's minute.
C18_SeriesChronological ==
    \A n \in DOMAIN Wrote :
        LET run   == Wrote[n]
            store == run.health.minute_samples
        IN  /\ \A c \in DOMAIN store :
                  /\ \A k \in DOMAIN store[c] : \A l \in DOMAIN store[c] :
                        k < l => Earlier(store[c][k].t, store[c][l].t)
                  /\ \/ store[c] = LoadedSeries(run, c)
                     \/ /\ Len(store[c]) = Len(LoadedSeries(run, c)) + 1
                        /\ SubSeq(store[c], 1, Len(store[c]) - 1) = LoadedSeries(run, c)
            /\ \A i \in DOMAIN run.monitors :
                  /\ run.monitors[i].name \in DOMAIN store
                  /\ LET series == store[run.monitors[i].name]
                     IN  series[Len(series)].t = IsoMinute(run.bucket_end)

\* three runs, the second in the minute of the first and the third in a later
\* minute: the series of "Web A" has two samples, the last of the third run
C18_Witness ==
    /\ Len(Wrote) = 3
    /\ Wrote[1].bucket_end = Wrote[2].bucket_end
    /\ Wrote[2].bucket_end < Wrote[3].bucket_end
    /\ file = [state |-> "ok", doc |-> Wrote[3].health]
    /\ Len(file.doc.minute_samples[NameWebA]) = 2
    /\ file.doc.minute_samples[NameWebA][2].t = IsoMinute(Wrote[3].bucket_end)

-----------------------------------------------------------------------------
(* SpecFixed: runs of main() over the same two monitors in every run, from a  *)
(* first run                                                                  *)

MaxRunsF == 3

RunF == Len(runs) < MaxRunsF
        /\ RunWith({<<Monitor(NameWebA), Monitor(NameWebB)>>}, {RespDown, RespFull},
                   {RespFull}, Steps, {0})

RunAbortedF == Len(runs) < MaxRunsF
               /\ RunAbortedWith({<<Monitor(NameWebA), Monitor(NameWebB)>>}, {1})

NextF == RunF \/ RunAbortedF

SpecFixed == Init /\ [][NextF]_vars

\* the indices of the incidents of a written document that have endTime null
OpenIn(run) == {j \in DOMAIN run.health.incidents : run.health.incidents[j].endTime = None}

\* the positions of the monitors a run found non-operational
DownIn(run) == {i \in DOMAIN run.monitors : Evaluated(run)[i].status \in NonOperational}

\* as many open incidents as non-operational components
OpenCountMatches ==
    \A n \in DOMAIN Wrote : Cardinality(OpenIn(Wrote[n])) = Cardinality(DownIn(Wrote[n]))

\* C19: with the same monitors in every run and a first-run start, every
\* document written has as many open incidents as non-operational components,
\* exactly one open incident opened for each non-operational component and no
\* open incident opened for an operational one.
C19_OpenIncidentPerDownComponent ==
    /\ OpenCountMatches
    /\ \A n \in DOMAIN Wrote :
          LET run == Wrote[n]
          IN  \A i \in DOMAIN run.monitors :
                 Cardinality({j \in OpenIn(run) :
                                 OpenedFor(run.health.incidents[j], run.monitors[i].name)})
                 = IF i \in DownIn(run) THEN 1 ELSE 0

-----------------------------------------------------------------------------
(* C20 *)

\* C20: the incidents a run puts in front of the loaded list have endTime null
\* in the document that run writes, and every closed incident of a document
\* has an endTime later than its startTime.
C20_NotOpenedAndClosedInOneRun ==
    \A n \in DOMAIN Wrote :
        LET run == Wrote[n]
            new == run.health.incidents
        IN  /\ \A j \in 1..Added(run) : new[j].endTime = None
            /\ \A j \in DOMAIN new :
                  new[j].endTime # None => Val(new[j].endTime) > Val(new[j].startTime)

====
